---- MODULE Spec2Model ----
(***************************************************************************)
(* Model of the MCP tool servers of this repository: the Shopify sales     *)
(* analytics server (src/src/shopify.ts), the GA4 analysis server          *)
(* (src/src/ga4.ts) and the login of the Discord message server            *)
(* (discord-mcp.ts).  Each server is one process that handles CallTool     *)
(* requests; the variable `server` says which of the programs runs.        *)
(*                                                                         *)
(* Money is counted in cents.  A JavaScript number is a record             *)
(* [nan, v]: parseFloat of a text that is no number is NaN, and NaN        *)
(* poisons every sum it enters.  An instant is a number of hours since     *)
(* 1970-01-01T00:00Z; a period key is the sequence of its characters.      *)
(***************************************************************************)
EXTENDS Integers, Sequences, FiniteSets, TLC

VARIABLES
    server,               \* which program this process runs
    shopifyConfig,        \* shopify.ts: let shopifyConfig
    tz,                   \* offset of the process's time zone from UTC, hours
    store,                \* the shop's orders of the date range, upstream order
    pageCap,              \* most orders the upstream serves in one page
    pc,                   \* position of the CallTool handler
    call,                 \* request.params of the call being handled
    sent,                 \* requests sent to the upstream during this call
    response,             \* what the upstream answered last in this call
    result,               \* what the handler returned or threw
    analyticsDataClient,  \* ga4.ts: let analyticsDataClient
    propertyId,           \* ga4.ts: let propertyId
    lastSetup,            \* how the last setup_ga4_client call ended
    reports,              \* the runReport calls of the call being handled
    discordReady,         \* discord-mcp.ts: let discordReady
    clientIsReady,        \* discord-mcp.ts: client.isReady()
    logins,               \* client.login calls started, resolved and rejected
    handlers              \* the concurrent invocations of the Discord handler

vars == <<server, shopifyConfig, tz, store, pageCap, pc, call, sent, response,
          result, analyticsDataClient, propertyId, lastSetup, reports,
          discordReady, clientIsReady, logins, handlers>>

shopifyVars == <<shopifyConfig, tz, store, pageCap>>
ga4Vars == <<analyticsDataClient, propertyId, lastSetup, reports>>
discordVars == <<discordReady, clientIsReady, logins, handlers>>

(***************************************************************************)
(* Bounds of the model.                                                    *)
(***************************************************************************)
MaxOrders == 4        \* orders in the shop's date range (Spec)
MaxPageCap == 4       \* largest page the upstream serves
MaxTrendOrders == 2   \* orders of a trend query (SpecTrends)
MaxStamp == 9         \* instants StampBase + k * StampStep, k \in 0..MaxStamp
MaxHandlers == 2      \* concurrent invocations of the Discord handler
MaxLogins == 3        \* client.login calls started in one run of the process

NULL == "null"

Min(a, b) == IF a <= b THEN a ELSE b

(***************************************************************************)
(* JavaScript numbers.                                                     *)
(***************************************************************************)
NaN == [nan |-> TRUE, v |-> 0]
Num(c) == [nan |-> FALSE, v |-> c]

\* An amount of the payload is a text: numeric (so many cents) or not.
Amount(c) == [numeric |-> TRUE, cents |-> c]
NotANumber == [numeric |-> FALSE, cents |-> 0]

\* parseFloat(amount)
ParseFloat(a) == IF a.numeric THEN Num(a.cents) ELSE NaN

\* x + y
Plus(x, y) == IF x.nan \/ y.nan THEN NaN ELSE Num(x.v + y.v)

\* x.toFixed(2): cents are two decimals already; NaN prints as "NaN".
ToFixed2(x) == x

\* (x / n).toFixed(2) for a count n > 0: the quotient rounded to the cent,
\* halves up.
DivToFixed2(x, n) ==
    IF x.nan THEN NaN ELSE Num((2 * x.v + n) \div (2 * n))

(***************************************************************************)
(* Dates.  Date is the proleptic Gregorian calendar over days since         *)
(* 1970-01-01; getDay() is 0 on Sunday.                                    *)
(***************************************************************************)
CivilFromDays(days) ==
    LET z == days + 719468
        era == z \div 146097
        doe == z - era * 146097
        yoe == (doe - doe \div 1460 + doe \div 36524 - doe \div 146096) \div 365
        doy == doe - (365 * yoe + yoe \div 4 - yoe \div 100)
        mp == (5 * doy + 2) \div 153
        d == doy - (153 * mp + 2) \div 5 + 1
        m == IF mp < 10 THEN mp + 3 ELSE mp - 9
        y == yoe + era * 400 + (IF m <= 2 THEN 1 ELSE 0)
    IN  [year |-> y, month |-> m, date |-> d]

DaysFromCivil(y, m, d) ==
    LET yy == IF m <= 2 THEN y - 1 ELSE y
        era == yy \div 400
        yoe == yy - era * 400
        doy == (153 * (IF m > 2 THEN m - 3 ELSE m + 9) + 2) \div 5 + d - 1
        doe == yoe * 365 + yoe \div 4 - yoe \div 100 + doy
    IN  era * 146097 + doe - 719468

\* The day an instant falls on, in UTC and in the process's time zone.
UTCDays(t) == t \div 24
LocalDays(t, zone) == (t + zone) \div 24

WeekDay(days) == (days + 4) % 7

\* Date.prototype.getDate / getDay / getFullYear / getMonth: local time.
GetDate(t, zone) == CivilFromDays(LocalDays(t, zone)).date
GetDay(t, zone) == WeekDay(LocalDays(t, zone))
GetFullYear(t, zone) == CivilFromDays(LocalDays(t, zone)).year
GetMonth(t, zone) == CivilFromDays(LocalDays(t, zone)).month - 1

\* Date.prototype.setDate(dt): the local day of the month becomes dt (which
\* may be 0 or negative and then rolls into the month before); the local
\* time of day stays.
SetDate(t, zone, dt) ==
    LET c == CivilFromDays(LocalDays(t, zone))
        day == DaysFromCivil(c.year, c.month, 1) + dt - 1
    IN  (day * 24) + ((t + zone) % 24) - zone

(***************************************************************************)
(* Texts, as sequences of characters.                                      *)
(***************************************************************************)
DigitChars == <<"0", "1", "2", "3", "4", "5", "6", "7", "8", "9">>

RECURSIVE ToStr(_)
\* String(n) for n >= 0
ToStr(n) ==
    IF n < 10 THEN <<DigitChars[n + 1]>>
    ELSE ToStr(n \div 10) \o <<DigitChars[(n % 10) + 1]>>

RECURSIVE PadStart(_, _, _)
\* s.padStart(len, ch)
PadStart(s, len, ch) ==
    IF Len(s) >= len THEN s ELSE PadStart(<<ch>> \o s, len, ch)

\* d.toISOString().split("T")[0]: the UTC date, YYYY-MM-DD.
ISODate(t) ==
    LET c == CivilFromDays(UTCDays(t))
    IN  PadStart(ToStr(c.year), 4, "0") \o <<"-">>
        \o PadStart(ToStr(c.month), 2, "0") \o <<"-">>
        \o PadStart(ToStr(c.date), 2, "0")

\* Rank of a character in the collation: the hyphen sorts before the digits.
CharRank(ch) ==
    IF ch = "-" THEN 0
    ELSE (CHOOSE i \in 1..10 : DigitChars[i] = ch)

RECURSIVE LocaleCompare(_, _)
\* a.localeCompare(b): negative, zero or positive.
LocaleCompare(a, b) ==
    IF a = <<>> /\ b = <<>> THEN 0
    ELSE IF a = <<>> THEN -1
    ELSE IF b = <<>> THEN 1
    ELSE IF CharRank(Head(a)) < CharRank(Head(b)) THEN -1
    ELSE IF CharRank(Head(a)) > CharRank(Head(b)) THEN 1
    ELSE LocaleCompare(Tail(a), Tail(b))

(***************************************************************************)
(* The upstream shop.                                                      *)
(***************************************************************************)
TimeZones == {-5, 0, 9}

\* Instants around the end of May 2024: 2024-05-30T00:00Z (a Thursday) and
\* every eleven hours from there, across the end of the week (Sunday
\* 2024-06-02) and the end of the month.
StampBase == DaysFromCivil(2024, 5, 30) * 24
Stamp(k) == StampBase + 11 * k

\* || on texts: the first operand unless it is falsy (missing or empty).
OrElse(a, b) == IF a # "" THEN a ELSE b

LineItem(productId, productTitle, title, quantity, cents, currency) ==
    [product |-> [id |-> productId, title |-> productTitle],
     title |-> title, quantity |-> quantity,
     originalTotal |-> Amount(cents), currencyCode |-> currency]

CurrencyOf(i) == IF i % 2 = 0 THEN "JPY" ELSE "USD"

LineItemsOf(i) ==
    CASE i = 4     -> <<LineItem("gid/1", "Widget", "Widget", 1, 5000, CurrencyOf(i)),
                        LineItem("", "", "", 1, 300, CurrencyOf(i))>>
      [] i % 3 = 1 -> <<LineItem("gid/1", "Widget", "Widget", 1, 5000, CurrencyOf(i))>>
      [] i % 3 = 2 -> <<LineItem("gid/2", "Gadget", "Gadget", 2, 20000, CurrencyOf(i))>>
      [] OTHER     -> <<LineItem("gid/1", "Widget", "Widget", 2, 10000, CurrencyOf(i)),
                        LineItem("", "", "Custom", 1, 2515, CurrencyOf(i))>>

RECURSIVE ItemCents(_)
ItemCents(items) ==
    IF items = <<>> THEN 0
    ELSE Head(items).originalTotal.cents + ItemCents(Tail(items))

\* An order node as the three queries select it.
MkOrder(i, at) ==
    [id |-> i, createdAt |-> at,
     totalPrice |-> Amount(ItemCents(LineItemsOf(i)) + 500 + 10 * i - 100 * i),
     currencyCode |-> CurrencyOf(i),
     totalDiscounts |-> Amount(100 * i),
     totalShipping |-> Amount(500),
     totalTax |-> Amount(10 * i),
     lineItems |-> LineItemsOf(i)]

RECURSIVE SetToSeq(_)
\* The numbers of S in ascending order.
SetToSeq(S) ==
    IF S = {} THEN <<>>
    ELSE LET m == CHOOSE x \in S : \A y \in S : x <= y
         IN  <<m>> \o SetToSeq(S \ {m})

\* The shops of Spec: any of the orders 1..MaxOrders.
Stores == { [j \in 1..Cardinality(S) |-> MkOrder(SetToSeq(S)[j], Stamp(SetToSeq(S)[j]))] :
            S \in SUBSET (1..MaxOrders) }

\* The shops of SpecTrends: up to MaxTrendOrders orders, each at any of the
\* instants, in any order.
TrendStores ==
    UNION { { [j \in 1..n |-> MkOrder(j, Stamp(ks[j]))] : ks \in [1..n -> 0..MaxStamp] } :
            n \in 0..MaxTrendOrders }

\* The orders that match a query filter: the date range selects the whole
\* store, a currency predicate the orders of that currency.
Matching(orders, currency) ==
    SelectSeq(orders, LAMBDA o : currency = "" \/ o.currencyCode = currency)

\* A page of the orders connection: at most `first` records and at most
\* what the upstream serves in one page, starting at the first record (the
\* queries declare no cursor argument).
PageOf(orders, currency, first, cap) ==
    LET all == Matching(orders, currency)
        n == Min(Min(first, cap), Len(all))
    IN  [nodes |-> SubSeq(all, 1, n),
         hasNextPage |-> n < Len(all),
         endCursor |-> IF n = 0 THEN 0 ELSE all[n].id]

\* A page whose first node carries amounts that are no numbers.
Corrupt(o) ==
    [o EXCEPT !.totalPrice = NotANumber, !.totalDiscounts = NotANumber,
              !.totalShipping = NotANumber, !.totalTax = NotANumber,
              !.lineItems = [j \in 1..Len(o.lineItems) |->
                               [o.lineItems[j] EXCEPT !.originalTotal = NotANumber]]]

CorruptPage(page) ==
    [page EXCEPT !.nodes = [j \in 1..Len(page.nodes) |->
                              IF j = 1 THEN Corrupt(page.nodes[j]) ELSE page.nodes[j]]]

(***************************************************************************)
(* get_sales_summary: the summary of the fetched orders.                   *)
(***************************************************************************)
\* !x for a number: 0 and NaN are falsy.
Falsy(x) == x.nan \/ x.v = 0

\* Position of the entry of `key` in an object's entries, 0 when it has none.
IndexOfKey(entries, key) ==
    IF \E j \in 1..Len(entries) : entries[j].key = key
    THEN CHOOSE j \in 1..Len(entries) : entries[j].key = key
    ELSE 0

\* Mutant of AddTo: the amount is stored, not added.
AddToOverwriting(entries, key, x) ==
    IF IndexOfKey(entries, key) = 0 THEN Append(entries, [key |-> key, value |-> x])
    ELSE [entries EXCEPT ![IndexOfKey(entries, key)].value = x]

\* if (!obj[key]) obj[key] = 0; obj[key] += x, on the entries of obj in
\* insertion order.
AddTo(entries, key, x) ==
    LET j == IndexOfKey(entries, key)
    IN  IF j = 0 THEN Append(entries, [key |-> key, value |-> Plus(Num(0), x)])
        ELSE [entries EXCEPT ![j].value =
                 Plus(IF Falsy(entries[j].value) THEN Num(0) ELSE entries[j].value, x)]

RECURSIVE SummaryLoop(_, _)
\* allOrders.forEach(...)
SummaryLoop(orders, summary) ==
    IF orders = <<>> THEN summary
    ELSE LET order == Head(orders)
             totalPrice == ParseFloat(order.totalPrice)
         IN  SummaryLoop(Tail(orders),
                [summary EXCEPT
                    !.totalSales = Plus(@, totalPrice),
                    !.totalDiscounts = Plus(@, ParseFloat(order.totalDiscounts)),
                    !.totalShipping = Plus(@, ParseFloat(order.totalShipping)),
                    !.totalTax = Plus(@, ParseFloat(order.totalTax)),
                    !.salesByCurrency = AddTo(@, order.currencyCode, totalPrice),
                    !.salesByStatus = AddTo(@, "other", totalPrice)])

\* Mutant of AverageOrderValue: the quotient without the test of the count;
\* 0 / 0 is NaN.
AverageOrderValueUnguarded(totalSales, totalOrders) ==
    IF totalOrders = 0 THEN NaN ELSE DivToFixed2(totalSales, totalOrders)

\* summary.totalOrders > 0 ? summary.totalSales / summary.totalOrders : 0,
\* formatted with toFixed(2)
AverageOrderValue(totalSales, totalOrders) ==
    IF totalOrders > 0 THEN DivToFixed2(totalSales, totalOrders) ELSE ToFixed2(Num(0))

FormatEntries(entries) ==
    [j \in 1..Len(entries) |-> [entries[j] EXCEPT !.value = ToFixed2(@)]]

FormattedSummary(allOrders) ==
    LET summary == SummaryLoop(allOrders,
                      [totalOrders |-> Len(allOrders), totalSales |-> Num(0),
                       totalDiscounts |-> Num(0), totalShipping |-> Num(0),
                       totalTax |-> Num(0), salesByCurrency |-> <<>>,
                       salesByStatus |-> <<>>])
    IN  [totalOrders |-> summary.totalOrders,
         totalSales |-> ToFixed2(summary.totalSales),
         averageOrderValue |->
             AverageOrderValue(summary.totalSales, summary.totalOrders),
         totalDiscounts |-> ToFixed2(summary.totalDiscounts),
         totalShipping |-> ToFixed2(summary.totalShipping),
         totalTax |-> ToFixed2(summary.totalTax),
         salesByCurrency |-> FormatEntries(summary.salesByCurrency),
         salesByStatus |-> FormatEntries(summary.salesByStatus)]

(***************************************************************************)
(* get_sales_by_product: line items grouped by product.                    *)
(***************************************************************************)
RECURSIVE AllLineItems(_)
\* The line items of the orders, order by order.
AllLineItems(orders) ==
    IF orders = <<>> THEN <<>>
    ELSE Head(orders).lineItems \o AllLineItems(Tail(orders))

IndexOfProduct(products, productId) ==
    IF \E j \in 1..Len(products) : products[j].productId = productId
    THEN CHOOSE j \in 1..Len(products) : products[j].productId = productId
    ELSE 0

RECURSIVE ProductLoop(_, _)
\* lineItems.forEach(...): productSales, in insertion order
ProductLoop(items, productSales) ==
    IF items = <<>> THEN productSales
    ELSE LET item == Head(items)
             productId == OrElse(item.product.id, item.title)
             productTitle == OrElse(item.product.title, item.title)
             totalPrice == ParseFloat(item.originalTotal)
             had == IndexOfProduct(productSales, productId)
             with == IF had # 0 THEN productSales
                     ELSE Append(productSales,
                             [productId |-> productId, productTitle |-> productTitle,
                              totalQuantity |-> 0, totalSales |-> Num(0),
                              currencyCode |-> item.currencyCode, orders |-> 0])
             j == IndexOfProduct(with, productId)
         IN  ProductLoop(Tail(items),
                [with EXCEPT ![j].totalQuantity = @ + item.quantity,
                             ![j].totalSales = Plus(@, totalPrice),
                             ![j].orders = @ + 1])

\* (a, b) => b.totalSales - a.totalSales; a NaN difference counts as 0.
CompareProducts(a, b) ==
    IF a.totalSales.nan \/ b.totalSales.nan THEN 0
    ELSE b.totalSales.v - a.totalSales.v

RECURSIVE InsertProduct(_, _)
\* x put into the sorted list behind every element it does not precede.
InsertProduct(sorted, x) ==
    IF sorted = <<>> THEN <<x>>
    ELSE IF CompareProducts(x, Head(sorted)) < 0 THEN <<x>> \o sorted
    ELSE <<Head(sorted)>> \o InsertProduct(Tail(sorted), x)

RECURSIVE SortProducts(_)
\* Array.prototype.sort with CompareProducts: a stable sort.
SortProducts(list) ==
    IF list = <<>> THEN <<>>
    ELSE InsertProduct(SortProducts(SubSeq(list, 1, Len(list) - 1)), list[Len(list)])

\* list.slice(0, end): a negative end counts from the end of the list.
Slice0(list, end) ==
    LET n == Len(list)
        k == IF end < 0 THEN (IF n + end < 0 THEN 0 ELSE n + end) ELSE Min(end, n)
    IN  SubSeq(list, 1, k)

FormatProduct(product) ==
    [product EXCEPT !.totalSales = ToFixed2(@)] @@
    [averageOrderValue |-> DivToFixed2(product.totalSales, product.orders)]

SortedProductSales(orders, limit) ==
    LET top == Slice0(SortProducts(ProductLoop(AllLineItems(orders), <<>>)), limit)
    IN  [j \in 1..Len(top) |-> FormatProduct(top[j])]

(***************************************************************************)
(* get_sales_trends: orders grouped by period.                             *)
(***************************************************************************)
Intervals == {"daily", "weekly", "monthly"}

\* Mutant of DailyKey: the date read in the process's time zone.
DailyKeyLocal(createdAt) == ISODate(createdAt + tz)

DailyKey(createdAt) == ISODate(createdAt)

\* weekStart.setDate(createdAt.getDate() - createdAt.getDay()), then the
\* ISO date of weekStart
WeeklyKey(createdAt, zone) ==
    ISODate(SetDate(createdAt, zone,
                    GetDate(createdAt, zone) - GetDay(createdAt, zone)))

\* `${getFullYear()}-${String(getMonth() + 1).padStart(2, "0")}`
MonthlyKey(createdAt, zone) ==
    ToStr(GetFullYear(createdAt, zone)) \o <<"-">>
    \o PadStart(ToStr(GetMonth(createdAt, zone) + 1), 2, "0")

\* switch (interval)
PeriodKey(createdAt, interval, zone) ==
    CASE interval = "daily"   -> DailyKey(createdAt)
      [] interval = "weekly"  -> WeeklyKey(createdAt, zone)
      [] interval = "monthly" -> MonthlyKey(createdAt, zone)
      [] OTHER                -> ISODate(createdAt)

IndexOfPeriod(buckets, period) ==
    IF \E j \in 1..Len(buckets) : buckets[j].period = period
    THEN CHOOSE j \in 1..Len(buckets) : buckets[j].period = period
    ELSE 0

RECURSIVE IntervalLoopCountingFirst(_, _, _, _)
\* Mutant of IntervalLoop: orderCount is set when the bucket is made and
\* not raised afterwards.
IntervalLoopCountingFirst(orders, interval, zone, salesByInterval) ==
    IF orders = <<>> THEN salesByInterval
    ELSE LET order == Head(orders)
             totalPrice == ParseFloat(order.totalPrice)
             periodKey == PeriodKey(order.createdAt, interval, zone)
             had == IndexOfPeriod(salesByInterval, periodKey)
             with == IF had # 0 THEN salesByInterval
                     ELSE Append(salesByInterval,
                             [period |-> periodKey, totalSales |-> Num(0),
                              orderCount |-> 1])
             j == IndexOfPeriod(with, periodKey)
         IN  IntervalLoopCountingFirst(Tail(orders), interval, zone,
                [with EXCEPT ![j].totalSales = Plus(@, totalPrice)])

RECURSIVE IntervalLoop(_, _, _, _)
\* orders.forEach(...): salesByInterval, in insertion order
IntervalLoop(orders, interval, zone, salesByInterval) ==
    IF orders = <<>> THEN salesByInterval
    ELSE LET order == Head(orders)
             totalPrice == ParseFloat(order.totalPrice)
             periodKey == PeriodKey(order.createdAt, interval, zone)
             had == IndexOfPeriod(salesByInterval, periodKey)
             with == IF had # 0 THEN salesByInterval
                     ELSE Append(salesByInterval,
                             [period |-> periodKey, totalSales |-> Num(0),
                              orderCount |-> 0])
             j == IndexOfPeriod(with, periodKey)
         IN  IntervalLoop(Tail(orders), interval, zone,
                [with EXCEPT ![j].totalSales = Plus(@, totalPrice),
                             ![j].orderCount = @ + 1])

\* (a, b) => a.period.localeCompare(b.period)
CompareTrends(a, b) == LocaleCompare(a.period, b.period)

RECURSIVE InsertTrend(_, _)
InsertTrend(sorted, x) ==
    IF sorted = <<>> THEN <<x>>
    ELSE IF CompareTrends(x, Head(sorted)) < 0 THEN <<x>> \o sorted
    ELSE <<Head(sorted)>> \o InsertTrend(Tail(sorted), x)

\* Mutant of SortTrends: the buckets left in insertion order.
SortTrendsOmitted(list) == list

RECURSIVE SortTrends(_)
\* Array.prototype.sort with CompareTrends: a stable sort.
SortTrends(list) ==
    IF list = <<>> THEN <<>>
    ELSE InsertTrend(SortTrends(SubSeq(list, 1, Len(list) - 1)), list[Len(list)])

FormatTrend(trend) ==
    [trend EXCEPT !.totalSales = ToFixed2(@)] @@
    [averageOrderValue |-> DivToFixed2(trend.totalSales, trend.orderCount)]

SortedSalesTrends(orders, interval, zone) ==
    LET sorted == SortTrends(IntervalLoop(orders, interval, zone, <<>>))
    IN  [j \in 1..Len(sorted) |-> FormatTrend(sorted[j])]

(***************************************************************************)
(* The Discord server before its first request.                            *)
(***************************************************************************)
Handlers == 1..MaxHandlers

NoHandler == [pc |-> "idle", fetched |-> FALSE]

DiscordStart ==
    /\ discordReady = FALSE
    /\ clientIsReady = FALSE
    /\ logins = [started |-> 0, resolved |-> 0, rejected |-> 0]
    /\ handlers = [h \in Handlers |-> NoHandler]

(***************************************************************************)
(* The Shopify server's CallTool handler.                                  *)
(***************************************************************************)
NoResult == [kind |-> "None"]
NoResponse == [kind |-> "none", hasNextPage |-> FALSE, endCursor |-> 0]

McpError(code, message) == [kind |-> "McpError", code |-> code, message |-> message]

\* Whether the caller gave a (truthy) text argument.
Given(args, field) == field \in DOMAIN args /\ args[field] # ""

\* const { limit = 10 } = args
LimitOf(args) == IF "limit" \in DOMAIN args THEN args["limit"] ELSE 10

CurrencyFilter(args) == IF Given(args, "currencyCode") THEN args["currencyCode"] ELSE ""

NoArgs == [f \in {} |-> ""]
NoCall == [name |-> "", arguments |-> NoArgs]

\* The argument objects of `given`, and each of them with `field` set to a
\* value of `values` added.
WithField(given, field, values) ==
    given \cup { a @@ (field :> v) : a \in given, v \in values }

\* The arguments a caller may send: each field of the tool given or missing.
DateArgs ==
    WithField(WithField({NoArgs}, "startDate", {"2024-05-30"}),
              "endDate", {"2024-06-03"})
SummaryArgs == WithField(DateArgs, "currencyCode", {"USD"})
ByProductArgs == WithField(DateArgs, "limit", {-1, 0, 1, 2})
TrendsArgs == WithField(DateArgs, "interval", Intervals \cup {"yearly"})

\* `first` of the three orders queries.
FirstOf(name) ==
    CASE name = "get_sales_summary"    -> 100
      [] name = "get_sales_by_product" -> 50
      [] OTHER                         -> 250

\* The query filter: only get_sales_summary adds a currency predicate.
FilterOf(name, args) ==
    IF name = "get_sales_summary" THEN CurrencyFilter(args) ELSE ""

ShopifyTools == {"get_sales_summary", "get_sales_by_product", "get_sales_trends"}

\* Mutant of Validate: the interval is not checked against the three values.
ValidateAnyInterval(name, args) ==
    IF shopifyConfig = NULL
    THEN McpError("InvalidRequest", "Shopify client not configured")
    ELSE IF name \notin ShopifyTools
    THEN McpError("InvalidRequest", "Unknown tool")
    ELSE IF ~Given(args, "startDate") \/ ~Given(args, "endDate")
    THEN McpError("InvalidParams", "startDate and endDate are required")
    ELSE IF name = "get_sales_trends" /\ ~Given(args, "interval")
    THEN McpError("InvalidParams", "startDate, endDate, and interval are required")
    ELSE NoResult

\* The checks the handler makes before its first query, in its order: the
\* error it throws, or NoResult when it goes on to query.
Validate(name, args) ==
    IF shopifyConfig = NULL
    THEN McpError("InvalidRequest", "Shopify client not configured")
    ELSE IF name \notin ShopifyTools
    THEN McpError("InvalidRequest", "Unknown tool")
    ELSE IF ~Given(args, "startDate") \/ ~Given(args, "endDate")
    THEN McpError("InvalidParams", "startDate and endDate are required")
    ELSE IF name = "get_sales_trends" /\ ~Given(args, "interval")
    THEN McpError("InvalidParams", "startDate, endDate, and interval are required")
    ELSE IF name = "get_sales_trends" /\ args["interval"] \notin Intervals
    THEN McpError("InvalidParams", "interval must be one of: daily, weekly, monthly")
    ELSE NoResult

\* executeShopifyGraphQL up to its request: it throws when the config is
\* unset and posts the query otherwise.
ExecuteShopifyGraphQL ==
    IF shopifyConfig = NULL
    THEN /\ result' = McpError("InvalidRequest", "Shopify configuration not set")
         /\ pc' = "done"
         /\ sent' = sent
    ELSE /\ result' = NoResult
         /\ pc' = "awaiting"
         /\ sent' = sent + 1

\* The handler from the arrival of the request to its first await.
HandleCall(name, args) ==
    /\ server = "shopify"
    /\ pc = "idle"
    /\ call' = [name |-> name, arguments |-> args]
    /\ response' = NoResponse
    /\ IF Validate(name, args) # NoResult
       THEN /\ result' = Validate(name, args)
            /\ pc' = "done"
            /\ sent' = sent
       ELSE ExecuteShopifyGraphQL
    /\ UNCHANGED <<server, discordVars, shopifyVars, ga4Vars>>

CallSalesSummary ==
    \E args \in SummaryArgs :
        HandleCall("get_sales_summary", args)

CallSalesByProduct ==
    \E args \in ByProductArgs :
        HandleCall("get_sales_by_product", args)

CallSalesTrends ==
    \E args \in TrendsArgs :
        HandleCall("get_sales_trends", args)

CallUnknownTool ==
    HandleCall("get_refunds", NoArgs)

\* What the upstream may answer to a query.
ResponseKinds == {"ok", "badAmount", "noData", "graphqlErrors", "httpError"}

\* The text the tool returns for the orders of the page it fetched.
Success(name, args, orders) ==
    CASE name = "get_sales_summary" ->
            [kind |-> "Success", tool |-> name, summary |-> FormattedSummary(orders)]
      [] name = "get_sales_by_product" ->
            [kind |-> "Success", tool |-> name,
             products |-> SortedProductSales(orders, LimitOf(args))]
      [] OTHER ->
            [kind |-> "Success", tool |-> name,
             trends |-> SortedSalesTrends(orders, args["interval"], tz)]

\* The handler from the answer of the upstream to its return.  In
\* get_sales_summary the while loop is left by its break after the first
\* page; the other two tools make one query.
AfterResponse(name, args, kind, page) ==
    CASE kind = "httpError" ->
            McpError("InternalError", "Shopify API Error")
      [] kind = "graphqlErrors" ->
            McpError("InternalError", "Error executing Shopify GraphQL")
      [] kind = "noData" ->
            McpError("InternalError", "Error processing request")
      [] OTHER ->
            Success(name, args, page.nodes)

ShopifyResponds ==
    /\ server = "shopify"
    /\ pc = "awaiting"
    /\ \E kind \in ResponseKinds :
         LET served == PageOf(store, FilterOf(call.name, call.arguments),
                              FirstOf(call.name), pageCap)
             page == IF kind = "badAmount" THEN CorruptPage(served) ELSE served
         IN  /\ kind = "badAmount" => served.nodes # <<>>
             /\ result' = AfterResponse(call.name, call.arguments, kind, page)
             /\ response' = IF kind \in {"ok", "badAmount"}
                            THEN [kind |-> kind, hasNextPage |-> page.hasNextPage,
                                  endCursor |-> page.endCursor]
                            ELSE [NoResponse EXCEPT !.kind = kind]
    /\ pc' = "done"
    /\ UNCHANGED <<server, discordVars, shopifyVars, ga4Vars, call, sent>>

\* Mutant of Return: the answer of the upstream and the reports of the call
\* stay behind.
ReturnLeavingAnswers ==
    /\ pc = "done"
    /\ pc' = "idle"
    /\ call' = NoCall
    /\ result' = NoResult
    /\ sent' = 0
    /\ UNCHANGED <<server, discordVars, shopifyVars, ga4Vars, response>>

\* The response or the error goes back to the client; the next request may
\* come.
Return ==
    /\ pc = "done"
    /\ pc' = "idle"
    /\ call' = NoCall
    /\ result' = NoResult
    /\ sent' = 0
    /\ response' = NoResponse
    /\ reports' = <<>>
    /\ UNCHANGED <<server, discordVars, shopifyVars, analyticsDataClient, propertyId, lastSetup>>

ShopifyInit ==
    /\ server = "shopify"
    /\ DiscordStart
    /\ shopifyConfig \in {NULL, "configured"}
    /\ tz \in TimeZones
    /\ pageCap \in 1..MaxPageCap
    /\ pc = "idle"
    /\ call = NoCall
    /\ sent = 0
    /\ response = NoResponse
    /\ result = NoResult
    /\ analyticsDataClient = NULL
    /\ propertyId = NULL
    /\ lastSetup = "none"
    /\ reports = <<>>

Init ==
    /\ ShopifyInit
    /\ store \in Stores

Next ==
    \/ CallSalesSummary
    \/ CallSalesByProduct
    \/ CallSalesTrends
    \/ CallUnknownTool
    \/ ShopifyResponds
    \/ Return

Spec == Init /\ [][Next]_vars

\* The trend queries alone, over shops whose orders lie at any instants.
TrendsInit ==
    /\ ShopifyInit
    /\ shopifyConfig = "configured"
    /\ store \in TrendStores

TrendsNext ==
    \/ CallSalesTrends
    \/ ShopifyResponds
    \/ Return

SpecTrends == TrendsInit /\ [][TrendsNext]_vars

(***************************************************************************)
(* The GA4 server's CallTool handler.  A setup_ga4_client call has no       *)
(* await: it runs at once, also while another call waits for its reports.  *)
(***************************************************************************)
FunnelSteps == <<"session_start", "view_item_list", "view_item",
                 "add_to_cart", "begin_checkout", "purchase">>

\* The text the outer catch (or the unknown-tool branch) returns.
ErrorText(code, message) == [kind |-> "ErrorText", code |-> code, message |-> message]

\* A row of a report: its dimension values and its metric values.
Row(dimensionValues, metricValues) ==
    [dimensionValues |-> dimensionValues, metricValues |-> metricValues]

\* What runReport may answer to a query without and with a dimension.
TotalRows == { <<>>, <<Row(<<>>, <<4>>)>>, <<Row(<<>>, <<1>>)>> }
SegmentRows ==
    { <<>>,
      <<Row(<<"mobile">>, <<2>>), Row(<<"desktop">>, <<>>)>>,
      <<Row(<<"mobile">>, <<1>>), Row(<<"desktop">>, <<3>>),
        Row(<<>>, <<1>>), Row(<<>>, <<2>>)>> }

RowsFor(report) == IF report.dimension = "" THEN TotalRows ELSE SegmentRows

\* analyticsDataClient.runReport({property: `properties/${propertyId}`, ...})
RunReport(events, dimension) ==
    [events |-> events, dimension |-> dimension, property |-> propertyId,
     status |-> "pending", rows |-> <<>>]

\* parseInt(row.metricValues?.[0]?.value ?? "0", 10)
MetricOf(row) == IF row.metricValues = <<>> THEN 0 ELSE row.metricValues[1]

\* row.dimensionValues?.[0]?.value ?? "unknown"
DimensionOf(row) ==
    IF row.dimensionValues = <<>> THEN "unknown" ELSE row.dimensionValues[1]

\* The key of the overall count in a results map (null in the code).
OverallKey == "(null)"

\* Map.prototype.get with a default, Map.prototype.set, and the keys, on
\* the entries of a map in insertion order.
MapGet(entries, key, default) ==
    IF IndexOfKey(entries, key) = 0 THEN default
    ELSE entries[IndexOfKey(entries, key)].value

MapSet(entries, key, value) ==
    IF IndexOfKey(entries, key) = 0
    THEN Append(entries, [key |-> key, value |-> value])
    ELSE [entries EXCEPT ![IndexOfKey(entries, key)].value = value]

MapKeys(entries) == [j \in 1..Len(entries) |-> entries[j].key]

RECURSIVE SumRows(_)
\* response.rows?.reduce((sum, row) => sum + parseInt(...), 0) ?? 0
SumRows(rows) ==
    IF rows = <<>> THEN 0 ELSE MetricOf(Head(rows)) + SumRows(Tail(rows))

RECURSIVE SetRows(_, _)
\* response.rows?.forEach(row => results.set(dimensionValue, count))
SetRows(rows, results) ==
    IF rows = <<>> THEN results
    ELSE SetRows(Tail(rows), MapSet(results, DimensionOf(Head(rows)), MetricOf(Head(rows))))

\* The map getEventCount returns for an answered report.
EventCounts(report) ==
    IF report.dimension = "" THEN <<[key |-> OverallKey, value |-> SumRows(report.rows)]>>
    ELSE SetRows(report.rows, <<>>)

\* Mutant of Rate: the quotient without the test of the base; a quotient
\* that is not finite (printed as null) stands as -1.
RateUnguarded(count, base) ==
    IF base = 0 THEN -1 ELSE (2 * count * 10000 + base) \div (2 * base)

\* base > 0 ? parseFloat(((count / base) * 100).toFixed(2)) : 0, in
\* hundredths of a percent
Rate(count, base) ==
    IF base > 0 THEN (2 * count * 10000 + base) \div (2 * base) ELSE 0

RECURSIVE AddKeys(_, _)
\* new Set([...keys]): the keys in first-seen order
AddKeys(keys, seen) ==
    IF keys = <<>> THEN seen
    ELSE AddKeys(Tail(keys),
                 IF \E j \in 1..Len(seen) : seen[j] = Head(keys) THEN seen
                 ELSE Append(seen, Head(keys)))

\* Mutant of CvrResults: the segments of the conversion events alone.
CvrResultsOfConversionSegments(conversionCounts, baseCounts, segmentBy) ==
    LET overall == [conversionEvents |-> MapGet(conversionCounts, OverallKey, 0),
                    baseEvents |-> MapGet(baseCounts, OverallKey, 0),
                    cvr |-> Rate(MapGet(conversionCounts, OverallKey, 0),
                                 MapGet(baseCounts, OverallKey, 0))]
        allSegments == SelectSeq(AddKeys(MapKeys(conversionCounts), <<>>),
                                 LAMBDA k : k # OverallKey)
    IN  IF segmentBy = "" THEN [overall |-> overall]
        ELSE [overall |-> overall,
              segments |-> [j \in 1..Len(allSegments) |->
                  [segment |-> allSegments[j],
                   conversionEvents |-> MapGet(conversionCounts, allSegments[j], 0),
                   baseEvents |-> MapGet(baseCounts, allSegments[j], 0),
                   cvr |-> Rate(MapGet(conversionCounts, allSegments[j], 0),
                                MapGet(baseCounts, allSegments[j], 0))]]]

\* calculate_cvr: cvrResults
CvrResults(conversionCounts, baseCounts, segmentBy) ==
    LET overall == [conversionEvents |-> MapGet(conversionCounts, OverallKey, 0),
                    baseEvents |-> MapGet(baseCounts, OverallKey, 0),
                    cvr |-> Rate(MapGet(conversionCounts, OverallKey, 0),
                                 MapGet(baseCounts, OverallKey, 0))]
        allSegments == SelectSeq(AddKeys(MapKeys(conversionCounts) \o MapKeys(baseCounts), <<>>),
                                 LAMBDA k : k # OverallKey)
    IN  IF segmentBy = "" THEN [overall |-> overall]
        ELSE [overall |-> overall,
              segments |-> [j \in 1..Len(allSegments) |->
                  [segment |-> allSegments[j],
                   conversionEvents |-> MapGet(conversionCounts, allSegments[j], 0),
                   baseEvents |-> MapGet(baseCounts, allSegments[j], 0),
                   cvr |-> Rate(MapGet(conversionCounts, allSegments[j], 0),
                                MapGet(baseCounts, allSegments[j], 0))]]]

\* Mutant of SegmentValues: the keys of the first step alone.
SegmentValuesOfFirstStep(stepCounts, seen) ==
    IF stepCounts = <<>> THEN seen
    ELSE AddKeys(SelectSeq(MapKeys(Head(stepCounts)), LAMBDA k : k # OverallKey), seen)

RECURSIVE SegmentValues(_, _)
\* allSegmentValues: the keys of the step results, but for the overall key
SegmentValues(stepCounts, seen) ==
    IF stepCounts = <<>> THEN seen
    ELSE SegmentValues(Tail(stepCounts),
            AddKeys(SelectSeq(MapKeys(Head(stepCounts)), LAMBDA k : k # OverallKey), seen))

\* analyze_user_journey: journeyResults, from the step results in the order
\* of funnelSteps
JourneyResults(stepCounts, segmentBy) ==
    LET count(i) == MapGet(stepCounts[i], OverallKey, 0)
        allSegmentValues == IF segmentBy = "" THEN <<>> ELSE SegmentValues(stepCounts, <<>>)
        overallFunnel == [i \in 1..Len(FunnelSteps) |->
                             [step |-> FunnelSteps[i], count |-> count(i)]]
        overallStepConversion ==
            [i \in 1..(Len(FunnelSteps) - 1) |->
                [from |-> FunnelSteps[i], to |-> FunnelSteps[i + 1],
                 rate |-> Rate(count(i + 1), count(i))]]
    IN  IF segmentBy = ""
        THEN [overallFunnel |-> overallFunnel,
              overallStepConversion |-> overallStepConversion]
        ELSE [overallFunnel |-> overallFunnel,
              overallStepConversion |-> overallStepConversion,
              segmentFunnels |-> [j \in 1..Len(allSegmentValues) |->
                  [segment |-> allSegmentValues[j],
                   funnel |-> [i \in 1..Len(FunnelSteps) |->
                       [step |-> FunnelSteps[i],
                        count |-> MapGet(stepCounts[i], allSegmentValues[j], 0)]]]]]

\* get_ga4_data: formattedResponse
FormattedResponse(report) ==
    [rows |-> [j \in 1..Len(report.rows) |->
                  [dimensions |-> report.rows[j].dimensionValues,
                   metrics |-> report.rows[j].metricValues]],
     rowCount |-> Len(report.rows)]

TextArg(args, field) == IF Given(args, field) THEN args[field] ELSE ""

\* The arguments a caller may send to the GA4 tools.
Ga4DataArgs ==
    WithField(WithField(WithField({NoArgs}, "dateRange", {"2024-05"}),
                        "metrics", {"eventCount"}), "dimensions", {"deviceCategory"})
CvrArgs ==
    WithField(WithField(WithField(WithField({NoArgs}, "dateRange", {"2024-05"}),
                                  "conversionEvents", {"purchase"}),
                        "baseEvents", {"session_start"}),
              "segmentBy", {"deviceCategory"})
JourneyArgs ==
    WithField(WithField({NoArgs}, "dateRange", {"2024-05"}),
              "segmentBy", {"deviceCategory"})

\* Mutant of SetupGa4Client: the client is built before propertyId is
\* checked.
SetupGa4ClientBuildingFirst ==
    /\ server = "ga4"
    /\ \E arg \in {"missing", "number", "P1", "P2"}, constructed \in BOOLEAN :
         IF ~constructed
         THEN /\ lastSetup' = "failed"
              /\ UNCHANGED <<analyticsDataClient, propertyId>>
         ELSE IF arg \in {"missing", "number"}
         THEN /\ analyticsDataClient' = "client"
              /\ lastSetup' = "rejected"
              /\ UNCHANGED propertyId
         ELSE /\ analyticsDataClient' = "client"
              /\ propertyId' = arg
              /\ lastSetup' = "ok"
    /\ UNCHANGED <<server, discordVars, shopifyVars, pc, call, sent, response, result, reports>>

\* setup_ga4_client: propertyId missing, not a string, or a string.  The
\* client's constructor may throw; the assignments follow it.
SetupGa4Client ==
    /\ server = "ga4"
    /\ \E arg \in {"missing", "number", "P1", "P2"}, constructed \in BOOLEAN :
         IF arg \in {"missing", "number"}
         THEN /\ lastSetup' = "rejected"
              /\ UNCHANGED <<analyticsDataClient, propertyId>>
         ELSE IF ~constructed
         THEN /\ lastSetup' = "failed"
              /\ UNCHANGED <<analyticsDataClient, propertyId>>
         ELSE /\ analyticsDataClient' = "client"
              /\ propertyId' = arg
              /\ lastSetup' = "ok"
    /\ UNCHANGED <<server, discordVars, shopifyVars, pc, call, sent, response, result, reports>>

\* The checks of the tools alone, without the check of the client.
Ga4ValidateWithoutClient(name, args) ==
    IF name = "get_ga4_data"
    THEN IF ~Given(args, "dateRange") \/ ~Given(args, "metrics") \/ ~Given(args, "dimensions")
         THEN ErrorText("InvalidParams", "dateRange, metrics, and dimensions are required")
         ELSE NoResult
    ELSE IF name = "calculate_cvr"
    THEN IF ~Given(args, "conversionEvents") \/ ~Given(args, "baseEvents")
              \/ ~Given(args, "dateRange")
         THEN ErrorText("InvalidParams", "conversionEvents, baseEvents, and dateRange are required")
         ELSE NoResult
    ELSE IF name = "analyze_user_journey"
    THEN IF ~Given(args, "dateRange")
         THEN ErrorText("InvalidParams", "dateRange is required")
         ELSE NoResult
    ELSE ErrorText("UnknownTool", "unknown tool name")

\* The checks of the handler before its first report: the text it returns,
\* or NoResult when it goes on.
Ga4Validate(name, args) ==
    IF analyticsDataClient = NULL
    THEN ErrorText("InvalidRequest", "GA4 client not set up")
    ELSE IF name = "get_ga4_data"
    THEN IF ~Given(args, "dateRange") \/ ~Given(args, "metrics") \/ ~Given(args, "dimensions")
         THEN ErrorText("InvalidParams", "dateRange, metrics, and dimensions are required")
         ELSE NoResult
    ELSE IF name = "calculate_cvr"
    THEN IF ~Given(args, "conversionEvents") \/ ~Given(args, "baseEvents")
              \/ ~Given(args, "dateRange")
         THEN ErrorText("InvalidParams", "conversionEvents, baseEvents, and dateRange are required")
         ELSE NoResult
    ELSE IF name = "analyze_user_journey"
    THEN IF ~Given(args, "dateRange")
         THEN ErrorText("InvalidParams", "dateRange is required")
         ELSE NoResult
    ELSE ErrorText("UnknownTool", "unknown tool name")

\* The reports the handler requests before its first await.
FirstReports(name, args) ==
    CASE name = "get_ga4_data" ->
            <<RunReport(<<"*">>, args["dimensions"])>>
      [] name = "calculate_cvr" ->
            <<RunReport(<<args["conversionEvents"]>>, TextArg(args, "segmentBy"))>>
      [] OTHER ->
            [i \in 1..Len(FunnelSteps) |->
                RunReport(<<FunnelSteps[i]>>, TextArg(args, "segmentBy"))]

\* The handler from the arrival of the request to its first await.
Ga4HandleCall(name, args) ==
    /\ server = "ga4"
    /\ pc = "idle"
    /\ call' = [name |-> name, arguments |-> args]
    /\ IF Ga4Validate(name, args) # NoResult
       THEN /\ result' = Ga4Validate(name, args)
            /\ pc' = "done"
            /\ reports' = <<>>
            /\ sent' = sent
       ELSE /\ result' = NoResult
            /\ pc' = "awaiting"
            /\ reports' = FirstReports(name, args)
            /\ sent' = sent + Len(FirstReports(name, args))
    /\ UNCHANGED <<server, discordVars, shopifyVars, response, analyticsDataClient, propertyId, lastSetup>>

CallGetGa4Data == \E args \in Ga4DataArgs : Ga4HandleCall("get_ga4_data", args)

CallCalculateCvr == \E args \in CvrArgs : Ga4HandleCall("calculate_cvr", args)

CallAnalyzeUserJourney ==
    \E args \in JourneyArgs : Ga4HandleCall("analyze_user_journey", args)

CallUnknownGa4Tool == Ga4HandleCall("get_realtime", NoArgs)

AllAnswered(rs) == \A j \in 1..Len(rs) : rs[j].status = "answered"

\* Mutant of StepCountsResults: the results attached to the steps in
\* reverse.
StepCountsReversed(rs) == [j \in 1..Len(rs) |-> EventCounts(rs[Len(rs) + 1 - j])]

\* await Promise.all(stepCountsPromises): the results in the order of the
\* promises, which is the order of funnelSteps.
StepCountsResults(rs) == [j \in 1..Len(rs) |-> EventCounts(rs[j])]

\* Mutant of ReportFailed: the failure of a report is swallowed and the
\* handler goes on waiting for the others.
ReportFailedIgnored(i) ==
    /\ reports' = [reports EXCEPT ![i].status = "failed"]
    /\ result' = NoResult
    /\ pc' = IF \E j \in 1..Len(reports) : j # i /\ reports[j].status = "pending"
             THEN "awaiting" ELSE "done"
    /\ sent' = sent

\* runReport rejects: getEventCount (or get_ga4_data) throws an McpError,
\* Promise.all rejects with it, and the handler's catch returns its text.
ReportFailed(i) ==
    /\ reports' = [reports EXCEPT ![i].status = "failed"]
    /\ result' = ErrorText("InternalError", "GA4 API Error")
    /\ pc' = "done"
    /\ sent' = sent

\* A report of the call is answered or fails, and the handler goes on from
\* its await: to the next report, to its result, or to the error text.
Ga4Responds ==
    /\ server = "ga4"
    /\ pc = "awaiting"
    /\ \E i \in 1..Len(reports), ok \in BOOLEAN :
         /\ reports[i].status = "pending"
         /\ IF ~ok
            THEN ReportFailed(i)
            ELSE \E rows \in RowsFor(reports[i]) :
                 LET rs == [reports EXCEPT ![i].status = "answered", ![i].rows = rows]
                     segmentBy == TextArg(call.arguments, "segmentBy")
                 IN  IF call.name = "calculate_cvr" /\ Len(rs) = 1
                     THEN /\ reports' = Append(rs,
                                 RunReport(<<call.arguments["baseEvents"]>>, segmentBy))
                          /\ result' = NoResult
                          /\ pc' = "awaiting"
                          /\ sent' = sent + 1
                     ELSE IF ~AllAnswered(rs)
                     THEN /\ reports' = rs
                          /\ result' = NoResult
                          /\ pc' = "awaiting"
                          /\ sent' = sent
                     ELSE /\ reports' = rs
                          /\ pc' = "done"
                          /\ sent' = sent
                          /\ result' =
                               CASE call.name = "get_ga4_data" ->
                                      [kind |-> "Success", tool |-> call.name,
                                       data |-> FormattedResponse(rs[1])]
                                 [] call.name = "calculate_cvr" ->
                                      [kind |-> "Success", tool |-> call.name,
                                       cvr |-> CvrResults(EventCounts(rs[1]),
                                                          EventCounts(rs[2]), segmentBy)]
                                 [] OTHER ->
                                      [kind |-> "Success", tool |-> call.name,
                                       journey |-> JourneyResults(
                                           StepCountsResults(rs), segmentBy)]
    /\ UNCHANGED <<server, discordVars, shopifyVars, call, response, analyticsDataClient,
                   propertyId, lastSetup>>

Ga4Init ==
    /\ server = "ga4"
    /\ DiscordStart
    /\ shopifyConfig = NULL
    /\ tz = 0
    /\ store = <<>>
    /\ pageCap = 1
    /\ pc = "idle"
    /\ call = NoCall
    /\ sent = 0
    /\ response = NoResponse
    /\ result = NoResult
    /\ analyticsDataClient = NULL
    /\ propertyId = NULL
    /\ lastSetup = "none"
    /\ reports = <<>>

Ga4Next ==
    \/ SetupGa4Client
    \/ CallGetGa4Data
    \/ CallCalculateCvr
    \/ CallAnalyzeUserJourney
    \/ CallUnknownGa4Tool
    \/ Ga4Responds
    \/ Return

SpecGa4 == Ga4Init /\ [][Ga4Next]_vars

\* Either server.
ServersInit == Init \/ Ga4Init
ServersNext == Next \/ Ga4Next
SpecServers == ServersInit /\ [][ServersNext]_vars

(***************************************************************************)
(* Properties.                                                             *)
(***************************************************************************)
\* The orders of the page the call fetched, and all the orders its filter
\* matches.
Fetched ==
    PageOf(store, FilterOf(call.name, call.arguments), FirstOf(call.name), pageCap).nodes
AllMatching == Matching(store, FilterOf(call.name, call.arguments))

\* The call ended after a well-formed answer of the upstream.
AnsweredOk == server = "shopify" /\ pc = "done" /\ response.kind = "ok"

\* C1: a result is built from the orders of every page: it is what the
\* tool makes of all the orders that match its filter.
C1_AggregatesEveryPage ==
    AnsweredOk => result = Success(call.name, call.arguments, AllMatching)

\* C2: a result returned although the last page reported hasNextPage = true
\* carries truncated = true.
C2_TruncationIsFlagged ==
    (AnsweredOk /\ response.hasNextPage) =>
        ("truncated" \in DOMAIN result /\ result["truncated"] = TRUE)

\* C3: after a non-success response, a GraphQL errors field or a malformed
\* payload the call ends in an McpError.
C3_UpstreamFailureAborts ==
    (server = "shopify" /\ pc = "done"
        /\ response.kind \in {"httpError", "graphqlErrors", "noData", "badAmount"}) =>
        result.kind = "McpError"

\* The call in hand is one of the three tools with a date missing, or
\* get_sales_trends with an interval missing or not one of the three.
InvalidArguments ==
    /\ server = "shopify"
    /\ pc # "idle"
    /\ call.name \in ShopifyTools
    /\ \/ ~Given(call.arguments, "startDate")
       \/ ~Given(call.arguments, "endDate")
       \/ /\ call.name = "get_sales_trends"
          /\ \/ ~Given(call.arguments, "interval")
             \/ call.arguments["interval"] \notin Intervals

RejectedAsInvalidParams ==
    /\ pc = "done"
    /\ result.kind = "McpError"
    /\ result.code = "InvalidParams"
    /\ sent = 0

C4_MissingConfigurationFailsBeforeAnyQuery ==
    /\ (server = "shopify" /\ shopifyConfig = NULL /\ pc # "idle")
          => /\ pc = "done"
             /\ result.kind = "McpError"
             /\ result.code = "InvalidRequest"
             /\ sent = 0
    /\ (server = "ga4" /\ analyticsDataClient = NULL /\ pc # "idle")
          => /\ pc = "done"
             /\ result.kind = "ErrorText"
             /\ result.code = "InvalidRequest"
             /\ sent = 0
             /\ reports = <<>>

C4_Witness ==
    /\ server = "ga4"
    /\ analyticsDataClient = NULL
    /\ pc = "done"
    /\ call.name = "calculate_cvr"
    /\ Given(call.arguments, "conversionEvents")
    /\ Given(call.arguments, "baseEvents")
    /\ Given(call.arguments, "dateRange")
    /\ result.kind = "ErrorText"
    /\ sent = 0

\* C6: get_sales_by_product with limit <= 0 ends in InvalidParams and
\* returns no list.
C6_NonPositiveLimitRejected ==
    (/\ server = "shopify"
     /\ pc # "idle"
     /\ shopifyConfig # NULL
     /\ call.name = "get_sales_by_product"
     /\ Given(call.arguments, "startDate")
     /\ Given(call.arguments, "endDate")
     /\ LimitOf(call.arguments) <= 0) => RejectedAsInvalidParams

(***************************************************************************)
(* Period keys, read back as dates.                                        *)
(***************************************************************************)
IsDigit(ch) == \E i \in 1..10 : DigitChars[i] = ch

RECURSIVE DigitsValue(_)
\* The number a sequence of digits writes.
DigitsValue(chars) ==
    IF chars = <<>> THEN 0
    ELSE 10 * DigitsValue(SubSeq(chars, 1, Len(chars) - 1))
         + (CharRank(chars[Len(chars)]) - 1)

\* key has the form YYYY-MM-DD
IsDateKey(key) ==
    /\ Len(key) = 10
    /\ key[5] = "-" /\ key[8] = "-"
    /\ \A i \in {1, 2, 3, 4, 6, 7, 9, 10} : IsDigit(key[i])

\* key has the form YYYY-MM
IsMonthKey(key) ==
    /\ Len(key) = 7
    /\ key[5] = "-"
    /\ \A i \in {1, 2, 3, 4, 6, 7} : IsDigit(key[i])

KeyYear(key) == DigitsValue(SubSeq(key, 1, 4))
KeyMonth(key) == DigitsValue(SubSeq(key, 6, 7))
KeyDate(key) == DigitsValue(SubSeq(key, 9, 10))

\* The first day (days since 1970-01-01) of the period a key names.
KeyStart(key) ==
    IF Len(key) = 7 THEN DaysFromCivil(KeyYear(key), KeyMonth(key), 1)
    ELSE DaysFromCivil(KeyYear(key), KeyMonth(key), KeyDate(key))

\* The first day of the month after the one a month key names.
KeyMonthEnd(key) ==
    IF KeyMonth(key) = 12 THEN DaysFromCivil(KeyYear(key) + 1, 1, 1)
    ELSE DaysFromCivil(KeyYear(key), KeyMonth(key) + 1, 1)

\* key is the UTC calendar date of the instant t.
IsUTCDateOf(key, t) ==
    /\ IsDateKey(key)
    /\ KeyMonth(key) \in 1..12
    /\ KeyDate(key) \in 1..31
    /\ KeyStart(key) = UTCDays(t)
    /\ CivilFromDays(UTCDays(t)) =
          [year |-> KeyYear(key), month |-> KeyMonth(key), date |-> KeyDate(key)]

\* key is the date of the Sunday on or before the UTC date of t.
IsUTCWeekStartOf(key, t) ==
    /\ IsDateKey(key)
    /\ WeekDay(KeyStart(key)) = 0
    /\ KeyStart(key) <= UTCDays(t)
    /\ UTCDays(t) < KeyStart(key) + 7

\* key is the month of the UTC date of t.
IsUTCMonthOf(key, t) ==
    /\ IsMonthKey(key)
    /\ KeyMonth(key) \in 1..12
    /\ KeyStart(key) <= UTCDays(t)
    /\ UTCDays(t) < KeyMonthEnd(key)

\* A get_sales_trends call of the interval ended after a well-formed answer.
TrendsAnswered(interval) ==
    /\ AnsweredOk
    /\ call.name = "get_sales_trends"
    /\ call.arguments["interval"] = interval

\* C7: every fetched order is counted under the Sunday on or before its
\* UTC date, whatever the time zone of the process: each period's
\* orderCount is the number of fetched orders whose week it starts.
C7_WeeklyKeyIsUTCSunday ==
    TrendsAnswered("weekly") =>
        /\ \A j \in 1..Len(Fetched) : \E i \in 1..Len(result.trends) :
              IsUTCWeekStartOf(result.trends[i].period, Fetched[j].createdAt)
        /\ \A i \in 1..Len(result.trends) :
              result.trends[i].orderCount =
                 Cardinality({ j \in 1..Len(Fetched) :
                    IsUTCWeekStartOf(result.trends[i].period, Fetched[j].createdAt) })

\* C8: every fetched order is counted under the YYYY-MM of its UTC
\* timestamp, whatever the time zone of the process.
C8_MonthlyKeyIsUTCMonth ==
    TrendsAnswered("monthly") =>
        /\ \A j \in 1..Len(Fetched) : \E i \in 1..Len(result.trends) :
              IsUTCMonthOf(result.trends[i].period, Fetched[j].createdAt)
        /\ \A i \in 1..Len(result.trends) :
              result.trends[i].orderCount =
                 Cardinality({ j \in 1..Len(Fetched) :
                    IsUTCMonthOf(result.trends[i].period, Fetched[j].createdAt) })

\* C9: every fetched order is counted under the UTC calendar date
\* YYYY-MM-DD of its timestamp, whatever the time zone of the process.
C9_DailyKeyIsUTCDate ==
    TrendsAnswered("daily") =>
        /\ \A j \in 1..Len(Fetched) : \E i \in 1..Len(result.trends) :
              IsUTCDateOf(result.trends[i].period, Fetched[j].createdAt)
        /\ \A i \in 1..Len(result.trends) :
              result.trends[i].orderCount =
                 Cardinality({ j \in 1..Len(Fetched) :
                    IsUTCDateOf(result.trends[i].period, Fetched[j].createdAt) })

\* A daily call in a process away from UTC, with an order whose local date
\* is not its UTC date, and two periods in the result.
C9_Witness ==
    /\ TrendsAnswered("daily")
    /\ tz # 0
    /\ \E j \in 1..Len(Fetched) :
          LocalDays(Fetched[j].createdAt, tz) # UTCDays(Fetched[j].createdAt)
    /\ Len(result.trends) >= 2

\* C10: the trends hold one entry per distinct period key of the fetched
\* orders, in ascending order of the keys as texts, and that order is the
\* order in time of the periods the keys name.
C10_TrendsSortedChronologically ==
    (AnsweredOk /\ call.name = "get_sales_trends") =>
        LET trends == result.trends
            keys == { PeriodKey(Fetched[j].createdAt, call.arguments["interval"], tz) :
                      j \in 1..Len(Fetched) }
        IN  /\ { trends[i].period : i \in 1..Len(trends) } = keys
            /\ Len(trends) = Cardinality(keys)
            /\ \A i, j \in 1..Len(trends) :
                  i < j => /\ LocaleCompare(trends[i].period, trends[j].period) < 0
                           /\ KeyStart(trends[i].period) < KeyStart(trends[j].period)

\* A result of two periods whose orders came from the upstream latest
\* first.
C10_Witness ==
    /\ AnsweredOk
    /\ call.name = "get_sales_trends"
    /\ Len(result.trends) >= 2
    /\ Len(Fetched) >= 2
    /\ Fetched[1].createdAt > Fetched[2].createdAt

(***************************************************************************)
(* Properties of the aggregates.                                           *)
(***************************************************************************)
\* The rearrangements of a list.
Rearrangements(list) ==
    { [j \in 1..Len(list) |-> list[p[j]]] :
        p \in { q \in [1..Len(list) -> 1..Len(list)] :
                  \A i, j \in 1..Len(list) : q[i] = q[j] => i = j } }

\* The fetched orders in any order, each with its line items in any order.
Shuffles(orders) ==
    UNION { { [j \in 1..Len(shuffled) |-> [shuffled[j] EXCEPT !.lineItems = items[j]]] :
                items \in { f \in [1..Len(shuffled) ->
                                     UNION { Rearrangements(shuffled[k].lineItems) :
                                               k \in 1..Len(shuffled) }] :
                              \A k \in 1..Len(shuffled) :
                                  f[k] \in Rearrangements(shuffled[k].lineItems) } } :
            shuffled \in Rearrangements(orders) }

\* The entries of an object, whatever the order of its keys.
EntrySet(entries) == { entries[j] : j \in 1..Len(entries) }

\* Two results say the same: lists are compared with their order, the
\* objects keyed by currency without the order of their keys.
SameOutput(a, b) ==
    IF a.kind = "Success" /\ b.kind = "Success" /\ a.tool = "get_sales_summary"
                                                /\ b.tool = "get_sales_summary"
    THEN /\ [a.summary EXCEPT !.salesByCurrency = <<>>, !.salesByStatus = <<>>]
              = [b.summary EXCEPT !.salesByCurrency = <<>>, !.salesByStatus = <<>>]
         /\ EntrySet(a.summary.salesByCurrency) = EntrySet(b.summary.salesByCurrency)
         /\ EntrySet(a.summary.salesByStatus) = EntrySet(b.summary.salesByStatus)
    ELSE a = b

\* C11: whatever the order of the fetched orders and of their line items,
\* each of the three tools returns the same output, with the same
\* productTitle and currencyCode in each bucket and the same order of the
\* returned list.
C11_GroupingIsOrderIndependent ==
    AnsweredOk =>
        \A shuffled \in Shuffles(Fetched) :
            SameOutput(result, Success(call.name, call.arguments, shuffled))

\* average is sum / count to the nearest hundredth.
IsAverage(average, sum, count) ==
    /\ ~average.nan
    /\ ~sum.nan
    /\ 2 * count * average.v - 2 * sum.v <= count
    /\ 2 * sum.v - 2 * count * average.v <= count

\* C12: every reported average is sum / count when the count is positive
\* and 0 when it is zero: the summary's averageOrderValue is 0 when no
\* order was fetched, and every product and every period that is reported
\* has a positive count.
C12_AveragesAreZeroSafe ==
    AnsweredOk =>
        CASE call.name = "get_sales_summary" ->
               IF result.summary.totalOrders > 0
               THEN IsAverage(result.summary.averageOrderValue,
                              result.summary.totalSales, result.summary.totalOrders)
               ELSE result.summary.averageOrderValue = Num(0)
          [] call.name = "get_sales_by_product" ->
               \A j \in 1..Len(result.products) :
                   /\ result.products[j].orders > 0
                   /\ IsAverage(result.products[j].averageOrderValue,
                                result.products[j].totalSales, result.products[j].orders)
          [] OTHER ->
               \A j \in 1..Len(result.trends) :
                   /\ result.trends[j].orderCount > 0
                   /\ IsAverage(result.trends[j].averageOrderValue,
                                result.trends[j].totalSales, result.trends[j].orderCount)

C12_Witness ==
    /\ AnsweredOk
    /\ call.name = "get_sales_summary"
    /\ Fetched = <<>>
    /\ result.summary.totalOrders = 0
    /\ result.summary.averageOrderValue = Num(0)

\* The currencies of a list of orders or line items.
CurrenciesOf(list) == { list[j].currencyCode : j \in 1..Len(list) }

\* The fields of a returned product and of a returned period: none of them
\* is a breakdown by currency.
ProductFields == {"productId", "productTitle", "totalQuantity", "totalSales",
                  "currencyCode", "orders", "averageOrderValue"}
TrendFields == {"period", "totalSales", "orderCount", "averageOrderValue"}

\* The breakdown by currency the summary has for a total, "" when none.
SummaryBreakdownOf(total) == IF total = "totalSales" THEN "salesByCurrency" ELSE ""

\* C13: a returned total that adds amounts of more than one currency has a
\* breakdown by currency beside it: the totals of the summary, the
\* totalSales of each product and the totalSales of each period.
C13_NoSilentMixedCurrencySum ==
    AnsweredOk =>
        CASE call.name = "get_sales_summary" ->
               Cardinality(CurrenciesOf(Fetched)) > 1 =>
                   \A total \in {"totalSales", "totalDiscounts", "totalShipping", "totalTax"} :
                       SummaryBreakdownOf(total) \in DOMAIN result.summary
          [] call.name = "get_sales_by_product" ->
               \A j \in 1..Len(result.products) :
                   LET items == SelectSeq(AllLineItems(Fetched),
                                   LAMBDA item : OrElse(item.product.id, item.title)
                                                    = result.products[j].productId)
                   IN  Cardinality(CurrenciesOf(items)) > 1 =>
                           ~(DOMAIN result.products[j] \subseteq ProductFields)
          [] OTHER ->
               \A j \in 1..Len(result.trends) :
                   LET orders == SelectSeq(Fetched,
                                   LAMBDA o : PeriodKey(o.createdAt, call.arguments["interval"], tz)
                                                = result.trends[j].period)
                   IN  Cardinality(CurrenciesOf(orders)) > 1 =>
                           ~(DOMAIN result.trends[j] \subseteq TrendFields)

RECURSIVE TotalPriceCents(_)
\* The totalPrice amounts of the orders added up, in hundredths.
TotalPriceCents(orders) ==
    IF orders = <<>> THEN 0
    ELSE Head(orders).totalPrice.cents + TotalPriceCents(Tail(orders))

RECURSIVE EntryCents(_)
EntryCents(entries) ==
    IF entries = <<>> THEN 0 ELSE Head(entries).value.v + EntryCents(Tail(entries))

\* C14: salesByCurrency of the summary has exactly one entry per currency
\* of the fetched orders, each entry is the sum of totalPrice of the orders
\* of that currency alone, and the entries add up to totalSales.
C14_SalesByCurrencyIsIndependent ==
    (AnsweredOk /\ call.name = "get_sales_summary") =>
        LET entries == result.summary.salesByCurrency
        IN  /\ { entries[j].key : j \in 1..Len(entries) } = CurrenciesOf(Fetched)
            /\ Len(entries) = Cardinality(CurrenciesOf(Fetched))
            /\ \A j \in 1..Len(entries) :
                  entries[j].value =
                      Num(TotalPriceCents(SelectSeq(Fetched,
                              LAMBDA o : o.currencyCode = entries[j].key)))
            /\ result.summary.totalSales = Num(EntryCents(entries))

C14_Witness ==
    /\ AnsweredOk
    /\ call.name = "get_sales_summary"
    /\ Len(Fetched) >= 3
    /\ Len(result.summary.salesByCurrency) = 2
    /\ result.summary.totalSales.v > result.summary.salesByCurrency[1].value.v

\* The product a line item is counted under, and the products of the
\* fetched orders with the sum of their line items.
ProductIdOf(item) == OrElse(item.product.id, item.title)
FetchedProducts ==
    { ProductIdOf(AllLineItems(Fetched)[j]) : j \in 1..Len(AllLineItems(Fetched)) }
SalesOf(productId) ==
    ItemCents(SelectSeq(AllLineItems(Fetched), LAMBDA item : ProductIdOf(item) = productId))

\* C15: get_sales_by_product returns min(limit, number of products)
\* products, limit being 10 when the caller gives none, in descending order
\* of totalSales, and no product left out has a larger totalSales than a
\* product returned.
C15_TopProductsByTotalSales ==
    (AnsweredOk /\ call.name = "get_sales_by_product") =>
        LET products == result.products
            returned == { products[j].productId : j \in 1..Len(products) }
        IN  /\ Len(products) = Min(LimitOf(call.arguments), Cardinality(FetchedProducts))
            /\ \A i, j \in 1..Len(products) :
                  i < j => products[i].totalSales.v >= products[j].totalSales.v
            /\ \A j \in 1..Len(products) :
                  /\ products[j].productId \in FetchedProducts
                  /\ products[j].totalSales = Num(SalesOf(products[j].productId))
            /\ \A productId \in FetchedProducts \ returned :
                  \A j \in 1..Len(products) :
                      SalesOf(productId) <= products[j].totalSales.v

\* A call of the GA4 tool ended with its result.
Ga4Answered(name) ==
    /\ server = "ga4"
    /\ pc = "done"
    /\ call.name = name
    /\ result.kind = "Success"

\* rate is count / base as a percentage, to the nearest hundredth of a
\* percent, when base > 0, and 0 when base = 0.
IsRate(rate, count, base) ==
    IF base > 0
    THEN /\ 2 * base * rate - 2 * count * 10000 <= base
         /\ 2 * count * 10000 - 2 * base * rate <= base
    ELSE rate = 0

\* C16: analyze_user_journey reports one conversion per pair of consecutive
\* steps, in step order; it is count(step i) / count(step i-1) as a
\* percentage when count(step i-1) > 0 and 0 when count(step i-1) = 0.
C16_StepConversions ==
    Ga4Answered("analyze_user_journey") =>
        LET funnel == result.journey.overallFunnel
            conversion == result.journey.overallStepConversion
        IN  /\ Len(funnel) = Len(FunnelSteps)
            /\ \A i \in 1..Len(funnel) : funnel[i].step = FunnelSteps[i]
            /\ Len(conversion) = Len(FunnelSteps) - 1
            /\ \A i \in 1..Len(conversion) :
                  /\ conversion[i].from = FunnelSteps[i]
                  /\ conversion[i].to = FunnelSteps[i + 1]
                  /\ IsRate(conversion[i].rate, funnel[i + 1].count, funnel[i].count)

C16_Witness ==
    /\ Ga4Answered("analyze_user_journey")
    /\ result.journey.overallFunnel[1].count = 4
    /\ result.journey.overallFunnel[2].count = 1
    /\ result.journey.overallStepConversion[1].rate = 2500
    /\ result.journey.overallFunnel[3].count = 0
    /\ result.journey.overallFunnel[4].count = 4
    /\ result.journey.overallStepConversion[3].rate = 0

\* The segment values of the rows of an answered report.
SegmentsOf(report) == { DimensionOf(report.rows[j]) : j \in 1..Len(report.rows) }

\* C17: with segmentBy, the segments of segmentFunnels are exactly the
\* segment values returned for any step, each once, and each segment has
\* an entry for every funnel step, in step order, whose count is 0 where
\* the step had no row of the segment.
C17_SegmentUnion ==
    (Ga4Answered("analyze_user_journey") /\ Given(call.arguments, "segmentBy")) =>
        LET funnels == result.journey.segmentFunnels
        IN  /\ { funnels[j].segment : j \in 1..Len(funnels) }
                  = UNION { SegmentsOf(reports[i]) : i \in 1..Len(reports) }
            /\ \A j, k \in 1..Len(funnels) :
                  funnels[j].segment = funnels[k].segment => j = k
            /\ \A j \in 1..Len(funnels) :
                  /\ Len(funnels[j].funnel) = Len(FunnelSteps)
                  /\ \A i \in 1..Len(FunnelSteps) :
                        /\ funnels[j].funnel[i].step = FunnelSteps[i]
                        /\ IF funnels[j].segment \in SegmentsOf(reports[i])
                           THEN \E r \in 1..Len(reports[i].rows) :
                                   /\ DimensionOf(reports[i].rows[r]) = funnels[j].segment
                                   /\ MetricOf(reports[i].rows[r]) = funnels[j].funnel[i].count
                           ELSE funnels[j].funnel[i].count = 0

C17_Witness ==
    /\ Ga4Answered("analyze_user_journey")
    /\ Given(call.arguments, "segmentBy")
    /\ reports[1].rows = <<>>
    /\ SegmentsOf(reports[2]) = {"mobile", "desktop"}
    /\ SegmentsOf(reports[3]) = {"mobile", "desktop", "unknown"}
    /\ Len(result.journey.segmentFunnels) = 3
    /\ \E j \in 1..3 :
          /\ result.journey.segmentFunnels[j].segment = "unknown"
          /\ result.journey.segmentFunnels[j].funnel[2].count = 0

\* The count an answered report holds for a segment is the count of one of
\* its rows of that segment, and 0 when it has none.
IsSegmentCount(count, report, segment) ==
    IF segment \in SegmentsOf(report)
    THEN \E r \in 1..Len(report.rows) :
            /\ DimensionOf(report.rows[r]) = segment
            /\ MetricOf(report.rows[r]) = count
    ELSE count = 0

\* C18: calculate_cvr reports, with segmentBy, exactly the segments seen
\* for the conversion events or for the base events, each once, with count
\* 0 on the side that has no row of the segment; every cvr, the overall one
\* included, is conversions / base as a percentage when base > 0 and 0
\* when base = 0.
C18_CvrFollowsFunnelRules ==
    Ga4Answered("calculate_cvr") =>
        /\ IsRate(result.cvr.overall.cvr, result.cvr.overall.conversionEvents,
                  result.cvr.overall.baseEvents)
        /\ ("segments" \in DOMAIN result.cvr) = Given(call.arguments, "segmentBy")
        /\ Given(call.arguments, "segmentBy") =>
              LET segments == result.cvr.segments
              IN  /\ { segments[j].segment : j \in 1..Len(segments) }
                        = SegmentsOf(reports[1]) \cup SegmentsOf(reports[2])
                  /\ \A j, k \in 1..Len(segments) :
                        segments[j].segment = segments[k].segment => j = k
                  /\ \A j \in 1..Len(segments) :
                        /\ IsSegmentCount(segments[j].conversionEvents, reports[1],
                                          segments[j].segment)
                        /\ IsSegmentCount(segments[j].baseEvents, reports[2],
                                          segments[j].segment)
                        /\ IsRate(segments[j].cvr, segments[j].conversionEvents,
                                  segments[j].baseEvents)

C18_Witness ==
    /\ Ga4Answered("calculate_cvr")
    /\ Given(call.arguments, "segmentBy")
    /\ SegmentsOf(reports[1]) = {"mobile", "desktop"}
    /\ SegmentsOf(reports[2]) = {"mobile", "desktop", "unknown"}
    /\ \E j \in 1..Len(result.cvr.segments) :
          /\ result.cvr.segments[j].segment = "unknown"
          /\ result.cvr.segments[j].conversionEvents = 0
          /\ result.cvr.segments[j].baseEvents > 0
    /\ \E j \in 1..Len(result.cvr.segments) :
          /\ result.cvr.segments[j].segment = "mobile"
          /\ result.cvr.segments[j].cvr = 20000

\* C19: with segmentBy the overall result is still computed: the overall
\* count of each step is the step's total over all segments, in
\* analyze_user_journey (overallFunnel) and in calculate_cvr
\* (overall.conversionEvents, overall.baseEvents), and the overall rates
\* derive from these totals.
C19_OverallComputedWithSegments ==
    /\ (Ga4Answered("analyze_user_journey") /\ Given(call.arguments, "segmentBy")) =>
          /\ \A i \in 1..Len(FunnelSteps) :
                result.journey.overallFunnel[i].count = SumRows(reports[i].rows)
          /\ \A i \in 1..(Len(FunnelSteps) - 1) :
                IsRate(result.journey.overallStepConversion[i].rate,
                       SumRows(reports[i + 1].rows), SumRows(reports[i].rows))
    /\ (Ga4Answered("calculate_cvr") /\ Given(call.arguments, "segmentBy")) =>
          /\ result.cvr.overall.conversionEvents = SumRows(reports[1].rows)
          /\ result.cvr.overall.baseEvents = SumRows(reports[2].rows)
          /\ IsRate(result.cvr.overall.cvr,
                    SumRows(reports[1].rows), SumRows(reports[2].rows))

C21_MissingKeyIsUnknown ==
    /\ (Ga4Answered("calculate_cvr") /\ Given(call.arguments, "segmentBy")) =>
          \A i \in 1..Len(reports) : \A r \in 1..Len(reports[i].rows) :
              reports[i].rows[r].dimensionValues = <<>> =>
                  \E j \in 1..Len(result.cvr.segments) :
                      result.cvr.segments[j].segment = "unknown"
    /\ (Ga4Answered("analyze_user_journey") /\ Given(call.arguments, "segmentBy")) =>
          \A i \in 1..Len(reports) : \A r \in 1..Len(reports[i].rows) :
              reports[i].rows[r].dimensionValues = <<>> =>
                  \E j \in 1..Len(result.journey.segmentFunnels) :
                      /\ result.journey.segmentFunnels[j].segment = "unknown"
                      /\ result.journey.segmentFunnels[j].funnel[i].count > 0
    /\ (AnsweredOk /\ call.name = "get_sales_by_product"
                   /\ "limit" \notin DOMAIN call.arguments) =>
          \A k \in 1..Len(AllLineItems(Fetched)) :
              (/\ AllLineItems(Fetched)[k].product.id = ""
               /\ AllLineItems(Fetched)[k].title = "") =>
                  \E j \in 1..Len(result.products) :
                      result.products[j].productId = "unknown"

\* C22: in whatever order the six reports of analyze_user_journey
\* complete, the result of each step is attached to its own step: the
\* overall count of a step without segmentBy is the total of that step's
\* report, the count of a segment at a step is taken from that step's
\* report, and each conversion from the counts of its own two steps; so
\* the three parts of the output are the same for every completion order.
C22_MergeIgnoresCompletionOrder ==
    Ga4Answered("analyze_user_journey") =>
        /\ \A i \in 1..Len(FunnelSteps) :
              /\ reports[i].events = <<FunnelSteps[i]>>
              /\ result.journey.overallFunnel[i].step = FunnelSteps[i]
              /\ result.journey.overallFunnel[i].count =
                    IF Given(call.arguments, "segmentBy") THEN 0
                    ELSE SumRows(reports[i].rows)
        /\ \A i \in 1..(Len(FunnelSteps) - 1) :
              IsRate(result.journey.overallStepConversion[i].rate,
                     result.journey.overallFunnel[i + 1].count,
                     result.journey.overallFunnel[i].count)
        /\ Given(call.arguments, "segmentBy") =>
              \A j \in 1..Len(result.journey.segmentFunnels) :
                  \A i \in 1..Len(FunnelSteps) :
                      IsSegmentCount(result.journey.segmentFunnels[j].funnel[i].count,
                                     reports[i], result.journey.segmentFunnels[j].segment)

C22_Witness ==
    /\ Ga4Answered("analyze_user_journey")
    /\ ~Given(call.arguments, "segmentBy")
    /\ SumRows(reports[1].rows) = 4
    /\ SumRows(reports[2].rows) = 1
    /\ SumRows(reports[6].rows) = 0
    /\ result.journey.overallFunnel[1].count = 4
    /\ result.journey.overallFunnel[6].count = 0

\* C23: when a report of analyze_user_journey or of calculate_cvr fails,
\* the call ends with the error and returns no funnel and no CVR figures,
\* whatever the other reports returned.
C23_FailingStepFailsFunnel ==
    (/\ server = "ga4"
     /\ call.name \in {"analyze_user_journey", "calculate_cvr"}
     /\ \E i \in 1..Len(reports) : reports[i].status = "failed") =>
        /\ pc = "done"
        /\ result.kind = "ErrorText"
        /\ "journey" \notin DOMAIN result
        /\ "cvr" \notin DOMAIN result

C23_Witness ==
    /\ server = "ga4"
    /\ call.name = "analyze_user_journey"
    /\ Len(reports) = Len(FunnelSteps)
    /\ reports[3].status = "failed"
    /\ reports[1].status = "answered"
    /\ reports[1].rows # <<>>
    /\ reports[6].status = "answered"
    /\ reports[2].status = "pending"
    /\ pc = "done"
    /\ result.kind = "ErrorText"

\* C24: the configuration is initialized once and read-only afterwards: no
\* step changes the Shopify config, and once the GA4 client and propertyId
\* are set no step changes them.
C24_ConfigurationIsInitOnce ==
    [][/\ shopifyConfig' = shopifyConfig
       /\ propertyId # NULL =>
             /\ propertyId' = propertyId
             /\ analyticsDataClient' = analyticsDataClient]_vars

RECURSIVE OrderCounts(_)
\* The orderCounts of the periods added up.
OrderCounts(trends) ==
    IF trends = <<>> THEN 0 ELSE Head(trends).orderCount + OrderCounts(Tail(trends))

\* C25: every count is the number of records counted: each period's
\* orderCount is the number of fetched orders with that period key, the
\* orderCounts add up to the number of fetched orders, and totalOrders of
\* the summary is the number of fetched orders.
C25_CountsContributingRecords ==
    /\ (AnsweredOk /\ call.name = "get_sales_trends") =>
          /\ \A j \in 1..Len(result.trends) :
                result.trends[j].orderCount =
                    Cardinality({ k \in 1..Len(Fetched) :
                        PeriodKey(Fetched[k].createdAt, call.arguments["interval"], tz)
                            = result.trends[j].period })
          /\ OrderCounts(result.trends) = Len(Fetched)
    /\ (AnsweredOk /\ call.name = "get_sales_summary") =>
          result.summary.totalOrders = Len(Fetched)

C25_Witness ==
    /\ AnsweredOk
    /\ call.name = "get_sales_trends"
    /\ Len(Fetched) = 3
    /\ Len(result.trends) = 2
    /\ \E j \in 1..2 : result.trends[j].orderCount = 2

\* The Shopify server with its own steps taken: a finished call returns.
\* Nothing obliges the upstream to answer, and the request carries no
\* timeout, so no step of the handler follows an unanswered request.
SpecFair == Init /\ [][Next]_vars /\ WF_vars(Return)

\* C26: a call that waits for the upstream reaches a terminal state, also
\* when the upstream never answers.
C26_NoCallWaitsForever ==
    (pc = "awaiting") ~> (pc = "done")

\* C27: the two reports of one calculate_cvr call are asked of the same
\* property, whatever other calls are handled meanwhile.
C27_CvrReadsOneProperty ==
    (server = "ga4" /\ call.name = "calculate_cvr" /\ Len(reports) = 2) =>
        reports[1].property = reports[2].property

\* The eventCount of all the rows of a report that map to a segment value.
SegmentTotal(report, segment) ==
    SumRows(SelectSeq(report.rows, LAMBDA row : DimensionOf(row) = segment))

\* C28: the count reported for a segment value is the sum of eventCount
\* over all the rows of the report that map to that value, in
\* calculate_cvr and in analyze_user_journey.
C28_SegmentCountSumsRows ==
    /\ (Ga4Answered("calculate_cvr") /\ Given(call.arguments, "segmentBy")) =>
          \A j \in 1..Len(result.cvr.segments) :
              /\ result.cvr.segments[j].conversionEvents =
                    SegmentTotal(reports[1], result.cvr.segments[j].segment)
              /\ result.cvr.segments[j].baseEvents =
                    SegmentTotal(reports[2], result.cvr.segments[j].segment)
    /\ (Ga4Answered("analyze_user_journey") /\ Given(call.arguments, "segmentBy")) =>
          \A j \in 1..Len(result.journey.segmentFunnels) :
              \A i \in 1..Len(FunnelSteps) :
                  result.journey.segmentFunnels[j].funnel[i].count =
                      SegmentTotal(reports[i], result.journey.segmentFunnels[j].segment)

\* C29: in the GA4 server analyticsDataClient is set exactly when
\* propertyId is set, before and after every step; a setup_ga4_client call
\* that is rejected leaves both as they were, and once they are set no
\* step makes either of them null again.
C29_ClientAndPropertyGoTogether ==
    [][server = "ga4" =>
          /\ (analyticsDataClient = NULL) <=> (propertyId = NULL)
          /\ (analyticsDataClient' = NULL) <=> (propertyId' = NULL)
          /\ lastSetup' = "rejected" =>
                /\ analyticsDataClient' = analyticsDataClient
                /\ propertyId' = propertyId
          /\ analyticsDataClient # NULL =>
                /\ analyticsDataClient' # NULL
                /\ propertyId' # NULL]_vars

C29_Witness ==
    /\ server = "ga4"
    /\ lastSetup = "rejected"
    /\ analyticsDataClient # NULL
    /\ propertyId = "P1"

(***************************************************************************)
(* The Discord server's CallTool handler up to its first fetch.  Several   *)
(* invocations of the handler may be at an await at the same time.         *)
(***************************************************************************)
\* The invocation goes on behind the login block: the tool looks up the
\* guild, or throws "Tool not found" for another request.
AfterLogin(h, found) ==
    IF found
    THEN handlers' = [handlers EXCEPT ![h] = [pc |-> "fetching", fetched |-> TRUE]]
    ELSE handlers' = [handlers EXCEPT ![h] = [pc |-> "failed", fetched |-> FALSE]]

\* A request arrives: if (!discordReady) { if (!client.isReady()) { await
\* client.login(...) ... } }
DiscordHandleCall(h) ==
    /\ server = "discord"
    /\ handlers[h].pc = "idle"
    /\ IF ~discordReady /\ ~clientIsReady
       THEN /\ logins.started < MaxLogins
            /\ logins' = [logins EXCEPT !.started = @ + 1]
            /\ handlers' = [handlers EXCEPT ![h].pc = "login"]
       ELSE /\ \E found \in BOOLEAN : AfterLogin(h, found)
            /\ UNCHANGED logins
    /\ UNCHANGED <<server, shopifyVars, ga4Vars, pc, call, sent, response, result,
                   discordReady, clientIsReady>>

\* The client's ready event, some time after a login was started.
ClientBecomesReady ==
    /\ server = "discord"
    /\ ~clientIsReady
    /\ logins.started > logins.rejected
    /\ clientIsReady' = TRUE
    /\ UNCHANGED <<server, shopifyVars, ga4Vars, pc, call, sent, response, result,
                   discordReady, logins, handlers>>

\* await client.login resolves: discordReady = true, and the handler goes on.
LoginResolves(h) ==
    /\ server = "discord"
    /\ handlers[h].pc = "login"
    /\ discordReady' = TRUE
    /\ logins' = [logins EXCEPT !.resolved = @ + 1]
    /\ \E found \in BOOLEAN : AfterLogin(h, found)
    /\ UNCHANGED <<server, shopifyVars, ga4Vars, pc, call, sent, response, result,
                   clientIsReady>>

\* await client.login rejects: the catch returns the login error.
LoginRejects(h) ==
    /\ server = "discord"
    /\ handlers[h].pc = "login"
    /\ logins' = [logins EXCEPT !.rejected = @ + 1]
    /\ handlers' = [handlers EXCEPT ![h].pc = "failed"]
    /\ UNCHANGED <<server, shopifyVars, ga4Vars, pc, call, sent, response, result,
                   discordReady, clientIsReady>>

\* The fetches of the tool end, with messages or with an error.
FetchCompletes(h) ==
    /\ server = "discord"
    /\ handlers[h].pc = "fetching"
    /\ handlers' = [handlers EXCEPT ![h].pc = "done"]
    /\ UNCHANGED <<server, shopifyVars, ga4Vars, pc, call, sent, response, result,
                   discordReady, clientIsReady, logins>>

\* The response goes back; the invocation is over.
DiscordReturns(h) ==
    /\ server = "discord"
    /\ handlers[h].pc \in {"done", "failed"}
    /\ handlers' = [handlers EXCEPT ![h] = NoHandler]
    /\ UNCHANGED <<server, shopifyVars, ga4Vars, pc, call, sent, response, result,
                   discordReady, clientIsReady, logins>>

DiscordInit ==
    /\ server = "discord"
    /\ DiscordStart
    /\ shopifyConfig = NULL
    /\ tz = 0
    /\ store = <<>>
    /\ pageCap = 1
    /\ pc = "idle"
    /\ call = NoCall
    /\ sent = 0
    /\ response = NoResponse
    /\ result = NoResult
    /\ analyticsDataClient = NULL
    /\ propertyId = NULL
    /\ lastSetup = "none"
    /\ reports = <<>>

DiscordNext ==
    \/ \E h \in Handlers : DiscordHandleCall(h)
    \/ ClientBecomesReady
    \/ \E h \in Handlers : LoginResolves(h)
    \/ \E h \in Handlers : LoginRejects(h)
    \/ \E h \in Handlers : FetchCompletes(h)
    \/ \E h \in Handlers : DiscordReturns(h)

SpecDiscord == DiscordInit /\ [][DiscordNext]_vars

\* C30: discordReady is true only after a client.login has resolved; an
\* invocation whose login was rejected has returned its error without a
\* fetch of a guild or channel, and discordReady is false while no login
\* has resolved; and while no login has been rejected at most one
\* client.login has been started.
C30_DiscordLogin ==
    server = "discord" =>
        /\ discordReady => logins.resolved > 0
        /\ \A h \in Handlers : handlers[h].pc = "failed" => ~handlers[h].fetched
        /\ logins.rejected = 0 => logins.started <= 1


====
